---- MODULE Spec2Model ----
(***************************************************************************)
(* Track-runner game server: the race state machine (race.rs), the         *)
(* per-runner pacing and kinematics (runner.rs) and the tick-driven server *)
(* (simulation.rs).                                                        *)
(*                                                                         *)
(* Arithmetic.  The program computes in f32; the model computes in fixed   *)
(* point and rounds every division toward zero:                            *)
(*   wall-clock time, countdown, elapsed_time   seconds                    *)
(*   split times                                centiseconds               *)
(*   distances                                  centimetres                *)
(*   speeds                                     centimetres per second     *)
(*   lane positions                             1/1000 lane                *)
(*   rand::random::<f32>() in [0,1)             hundredths (0..99)         *)
(* A division by zero yields Infinity, as the f32 division does.           *)
(* animation_phase, stride_multiplier, name and the squished flag are left *)
(* out: no modelled field is computed from them.                           *)
(***************************************************************************)
EXTENDS Integers, Sequences, FiniteSets, TLC

(***************************************************************************)
(* Bounds of the model.                                                    *)
(***************************************************************************)
\* largest runner_count passed to init_race
MaxRunners == 2
\* advancing ticks explored after construction or reset (Spec only)
MaxTicks == 6
\* time_scale values passed to init_race
TimeScales == {-1, 0, 1}
\* wall-clock seconds between two ticks
Deltas == {0, 2, 1000}
\* wall-clock seconds between two ticks of an uninterrupted run (LiveSpec)
LiveDeltas == {150, 400, 1000}
\* time_scale values of an uninterrupted run (LiveSpec)
LiveTimeScales == {1, 2}
\* samples of rand::random() for a finish time
FinishRand == {0, 99}
\* samples of the four rand::random() draws of one pacing curve
JitterVectors == {<<99, 0, 99, 0>>}
\* samples of rand::random() for a starting lane
LaneRand == {0}
\* samples of one measured tick-processing duration (ms)
TickTimeSamples == {0}

(***************************************************************************)
(* Program constants, in the model's units.                                *)
(***************************************************************************)
\* RaceConfig::default distance, 5000 m
DefaultDistance == 500000
\* RaceConfig::default formation_spread, 3 m
DefaultFormationSpread == 300
\* the countdown armed by Race::new and Race::start_countdown, 3 s
CountdownStart == 3
\* GameServer::new tick_rate
TICK_RATE == 60
\* the number of tick durations GameServer::tick keeps
TICK_WINDOW == 60
\* Runner::ACCELERATION_RATE, 2 m/s^2
ACCELERATION_RATE == 200
\* Runner::COOLDOWN_FACTOR 0.5, as a divisor
COOLDOWN_DIVISOR == 2
\* Runner::DRIFT_LEFT_SPEED 0.15, in hundredths
DRIFT_LEFT_SPEED == 15
\* Runner::MIN_LANE 0.75
MIN_LANE == 750
\* the 1000 m of a segment in get_target_speed
KmDistance == 100000
\* 1000 m over a time in centiseconds, as cm/s
SpeedNumerator == 10000000
\* the clamp .min(4.0) of the segment index
LastSegment == 4
\* the 1 m before the line at which the cooldown speed is read
FinishBackoff == 100
\* runners per row of the starting grid
RowSize == 10
\* f32 infinity: larger than any speed the model reaches
Infinity == 1000000000

\* Option<Race>: the empty sequence is None, << r >> is Some(r)
NoRace == << >>
SomeRace(r) == << r >>
\* a returned value: of a unit operation, Option::None or Some(v)
NoRet == [ kind |-> "unit" ]
None == [ kind |-> "none" ]
Some(v) == [ kind |-> "some", value |-> v ]

Min(a, b) == IF a <= b THEN a ELSE b
Max(a, b) == IF a >= b THEN a ELSE b
Abs(a) == IF a < 0 THEN -a ELSE a

\* F applied to the value of v, which is computed once
Only(S) == CHOOSE x \in S : TRUE
Then(v, F(_)) == Only({ F(x) : x \in { v } })

\* f32 division, rounded toward zero; x / 0 is +-Infinity
FDiv(a, b) ==
  IF b = 0 THEN (IF a < 0 THEN -Infinity ELSE Infinity)
  ELSE IF Abs(a) >= Infinity THEN (IF (a < 0) = (b < 0) THEN Infinity ELSE -Infinity)
  ELSE IF (a < 0) = (b < 0) THEN Abs(a) \div Abs(b)
  ELSE -(Abs(a) \div Abs(b))

(***************************************************************************)
(* runner.rs                                                               *)
(***************************************************************************)
\* the jitter factor 0.98 + rand * 0.04, in 1/10000
variation(r) == 9800 + 4 * r

\* a pacing curve whose last split is jittered like the others
from_finish_time_JitterLast(finish_time, jv) ==
  LET km_time == (finish_time * 100) \div 5
  IN  [ splits |-> << (km_time * variation(jv[1])) \div 10000,
                      (km_time * 2 * variation(jv[2])) \div 10000,
                      (km_time * 3 * variation(jv[3])) \div 10000,
                      (km_time * 4 * variation(jv[4])) \div 10000,
                      (km_time * 5 * variation(jv[1])) \div 10000 >>,
        final_time |-> finish_time * 100 ]

\* SplitTimes::from_finish_time; finish_time in seconds, jv the four draws
from_finish_time(finish_time, jv) ==
  LET km_time == (finish_time * 100) \div 5
  IN  [ splits |-> << (km_time * variation(jv[1])) \div 10000,
                      (km_time * 2 * variation(jv[2])) \div 10000,
                      (km_time * 3 * variation(jv[3])) \div 10000,
                      (km_time * 4 * variation(jv[4])) \div 10000,
                      finish_time * 100 >>,
        final_time |-> finish_time * 100 ]

\* SplitTimes::get_target_speed
get_target_speed(st, distance, time_scale) ==
  LET segment == IF distance < 0 THEN 0
                 ELSE Min(distance \div KmDistance, LastSegment)
      time_at_start == IF segment = 0 THEN 0 ELSE st.splits[segment]
      time_at_end == st.splits[segment + 1]
      segment_time == time_at_end - time_at_start
  IN  FDiv(FDiv(SpeedNumerator, segment_time), time_scale)

\* RunnerState::new
RunnerState_new(id, finish_time, jv) ==
  [ id |-> id,
    distance |-> 0,
    lane_position |-> 1000,
    current_speed |-> 0,
    target_speed |-> 0,
    split_times |-> from_finish_time(finish_time, jv),
    finished |-> FALSE ]

\* RunnerState::reset
RunnerState_reset(state, start_distance, start_lane) ==
  [ state EXCEPT !.distance = start_distance,
                 !.lane_position = start_lane,
                 !.current_speed = 0,
                 !.target_speed = 0,
                 !.finished = FALSE ]

\* the finish test of Runner::update
CrossedLine(distance, race_distance) == distance >= race_distance

\* Runner::update, "Check if finished"
check_finished(state, race_distance) ==
  IF ~state.finished /\ CrossedLine(state.distance, race_distance)
  THEN [ state EXCEPT !.finished = TRUE ]
  ELSE state

\* Runner::update, "Calculate target speed"
set_target_speed(state, time_scale, race_distance) ==
  IF state.finished
  THEN [ state EXCEPT !.target_speed =
           FDiv(get_target_speed(state.split_times,
                                 race_distance - FinishBackoff, time_scale),
                COOLDOWN_DIVISOR) ]
  ELSE [ state EXCEPT !.target_speed =
           get_target_speed(state.split_times, state.distance, time_scale) ]

\* an acceleration step that is not clamped at the target speed
accelerate_NoClamp(state, delta) ==
  LET accel == ACCELERATION_RATE * delta
  IN  IF state.current_speed < state.target_speed
      THEN [ state EXCEPT !.current_speed = state.current_speed + accel ]
      ELSE IF state.current_speed > state.target_speed
      THEN [ state EXCEPT !.current_speed = state.current_speed - accel ]
      ELSE state

\* Runner::update, "Smooth acceleration"
accelerate(state, delta) ==
  LET accel == ACCELERATION_RATE * delta
  IN  IF state.current_speed < state.target_speed
      THEN [ state EXCEPT !.current_speed =
               Min(state.current_speed + accel, state.target_speed) ]
      ELSE IF state.current_speed > state.target_speed
      THEN [ state EXCEPT !.current_speed =
               Max(state.current_speed - accel, state.target_speed) ]
      ELSE state

\* the distance advance of Runner::update
MoveForward(distance, speed, delta) == distance + speed * delta

\* Runner::update, "Move forward"
move_forward(state, delta) ==
  [ state EXCEPT !.distance =
      MoveForward(state.distance, state.current_speed, delta) ]

\* Runner::update, "Lane drift toward inside"
drift_lane(state, delta) ==
  IF state.lane_position > MIN_LANE
  THEN [ state EXCEPT !.lane_position =
           Max(state.lane_position
                 - (DRIFT_LEFT_SPEED * delta * state.lane_position) \div 100,
               MIN_LANE) ]
  ELSE state

\* an update that tests the finish line after the runner has moved
Runner_update_CheckAfterMove(state, delta, time_scale, race_distance) ==
  Then(set_target_speed(state, time_scale, race_distance), LAMBDA s1 :
  Then(accelerate(s1, delta), LAMBDA s2 :
  Then(move_forward(s2, delta), LAMBDA s3 :
  Then(check_finished(s3, race_distance), LAMBDA s4 :
  drift_lane(s4, delta)))))

\* Runner::update
Runner_update(state, delta, time_scale, race_distance) ==
  Then(check_finished(state, race_distance), LAMBDA s1 :
  Then(set_target_speed(s1, time_scale, race_distance), LAMBDA s2 :
  Then(accelerate(s2, delta), LAMBDA s3 :
  Then(move_forward(s3, delta), LAMBDA s4 :
  drift_lane(s4, delta)))))

\* From<&RunnerState> for RunnerSnapshot
RunnerSnapshot(state) ==
  [ id |-> state.id,
    distance |-> state.distance,
    lane_position |-> state.lane_position,
    speed |-> state.current_speed,
    finished |-> state.finished ]

(***************************************************************************)
(* race.rs                                                                 *)
(***************************************************************************)
\* RaceConfig as lib.rs::init_race builds it (distance and spread default)
RaceConfig(runner_count, time_scale) ==
  [ distance |-> DefaultDistance,
    runner_count |-> runner_count,
    time_scale |-> time_scale,
    formation_spread |-> DefaultFormationSpread ]

\* Race::new
Race_new(config) ==
  [ config |-> config,
    status |-> "NotStarted",
    runners |-> << >>,
    elapsed_time |-> 0,
    countdown |-> CountdownStart,
    finish_order |-> << >> ]

\* the decile of Race::generate_finish_times: base and span, in seconds
BucketBase(i) ==
  LET b == i % 10
  IN  IF b = 0 THEN 780 ELSE IF b <= 2 THEN 900 ELSE IF b <= 6 THEN 1140 ELSE 1560

BucketSpan(i) ==
  LET b == i % 10
  IN  IF b = 0 THEN 60 ELSE IF b <= 2 THEN 180 ELSE IF b <= 6 THEN 360 ELSE 540

\* times.sort_by(partial_cmp): insertion of x into an ascending sequence
RECURSIVE InsertSorted(_, _)
InsertSorted(x, s) ==
  IF s = << >> THEN << x >>
  ELSE IF x < Head(s) THEN << x >> \o s
  ELSE << Head(s) >> \o InsertSorted(x, Tail(s))

RECURSIVE SortAscending(_)
SortAscending(s) ==
  IF s = << >> THEN << >>
  ELSE InsertSorted(s[Len(s)], SortAscending(SubSeq(s, 1, Len(s) - 1)))

\* the finish time Race::generate_finish_times draws for index i (from 0)
\* with the rand::random() draw r, in seconds
FinishTimeDraw(i, r) == BucketBase(i) + (BucketSpan(i) * r) \div 100

\* Race::generate_finish_times; fr[i] is the i-th rand::random() draw
generate_finish_times(count, fr) ==
  SortAscending([ i \in 1..count |-> FinishTimeDraw(i - 1, fr[i]) ])

\* runner ids that count from 1
generate_runners_FromOne(r, fr, jv) ==
  LET finish_times == generate_finish_times(r.config.runner_count, fr)
  IN  [ r EXCEPT !.runners =
          [ i \in 1..Len(finish_times) |->
              RunnerState_new(i, finish_times[i], jv[i]) ] ]

\* Race::generate_runners; jv[i] are the jitter draws of runner i
generate_runners(r, fr, jv) ==
  LET finish_times == generate_finish_times(r.config.runner_count, fr)
  IN  [ r EXCEPT !.runners =
          [ i \in 1..Len(finish_times) |->
              RunnerState_new(i - 1, finish_times[i], jv[i]) ] ]

\* Race::setup_starting_positions; lr[i] is the lane draw of runner i
setup_starting_positions(r, lr) ==
  LET spread == r.config.formation_spread
  IN  [ r EXCEPT !.runners =
          [ i \in 1..Len(r.runners) |->
              LET row == (i - 1) \div RowSize
                  col == (i - 1) % RowSize
              IN  RunnerState_reset(r.runners[i],
                                    -(row * spread),
                                    800 + col * 150 + (lr[i] * 50) \div 100) ] ]

\* a start that leaves the countdown where the last run left it
start_countdown_KeepsCountdown(r) ==
  [ r EXCEPT !.status = "Countdown" ]

\* Race::start_countdown
start_countdown(r) ==
  [ r EXCEPT !.status = "Countdown", !.countdown = CountdownStart ]

\* finish_order.iter().any(|r| r.runner_id == id)
HasResult(finish_order, id) ==
  \E k \in 1..Len(finish_order) : finish_order[k].runner_id = id

\* a position that counts from 0
FinishPosition_FromZero(finish_order) == Len(finish_order)

\* the position given to the next finisher
FinishPosition(finish_order) == Len(finish_order) + 1

\* the RaceResult pushed for a runner that has just been flagged finished
NewResult(finish_order, id, elapsed_time) ==
  [ runner_id |-> id,
    finish_time |-> elapsed_time,
    position |-> FinishPosition(finish_order) ]

\* the result inserted at the head of the list
PushResult_Front(finish_order, result) == << result >> \o finish_order

\* finish_order.push(result)
PushResult(finish_order, result) == Append(finish_order, result)

\* the roster after the loop of the Racing arm of Race::update: every
\* unfinished runner is updated, and Runner::update reads that runner only
racing_runners(r, delta) ==
  [ i \in 1..Len(r.runners) |->
      IF r.runners[i].finished
      THEN r.runners[i]
      ELSE Runner_update(r.runners[i], delta,
                         r.config.time_scale, r.config.distance) ]

\* finish_order after the loop has passed runners 1..i, in roster order:
\* a runner the loop updated and found finished is pushed unless recorded
RECURSIVE racing_finish_order(_, _, _)
racing_finish_order(r, updated, i) ==
  IF i = 0 THEN r.finish_order
  ELSE Then(racing_finish_order(r, updated, i - 1), LAMBDA before :
         IF /\ ~r.runners[i].finished
            /\ updated[i].finished
            /\ ~HasResult(before, updated[i].id)
         THEN PushResult(before,
                         NewResult(before, updated[i].id, r.elapsed_time))
         ELSE before)

\* an end-of-race test that waits for at least one runner
AllFinished_NonEmpty(r) ==
  Len(r.runners) > 0 /\ Len(r.finish_order) = Len(r.runners)

\* the test that ends the race
AllFinished(r) == Len(r.finish_order) = Len(r.runners)

\* a countdown that is clamped at 0 but never starts the race
update_countdown_NoStart(r, delta) ==
  [ r EXCEPT !.countdown = Max(r.countdown - delta, 0) ]

\* a countdown that starts the race but is left below 0
update_countdown_NoClamp(r, delta) ==
  LET c == r.countdown - delta
  IN  IF c <= 0
      THEN [ r EXCEPT !.status = "Racing", !.countdown = c ]
      ELSE [ r EXCEPT !.countdown = c ]

\* Race::update, Countdown arm
update_countdown(r, delta) ==
  LET c == r.countdown - delta
  IN  IF c <= 0
      THEN [ r EXCEPT !.status = "Racing", !.countdown = 0 ]
      ELSE [ r EXCEPT !.countdown = c ]

\* a Racing arm that runs the runner loop before it advances elapsed_time
update_racing_StampBefore(r, delta) ==
  Then(racing_runners(r, delta), LAMBDA updated :
  Then([ r EXCEPT !.runners = updated,
                  !.finish_order =
                    racing_finish_order(r, updated, Len(updated)),
                  !.elapsed_time = @ + delta * r.config.time_scale ],
       LAMBDA r2 :
  IF AllFinished(r2) THEN [ r2 EXCEPT !.status = "Finished" ] ELSE r2))

\* Race::update, Racing arm
update_racing(r, delta) ==
  Then([ r EXCEPT !.elapsed_time = @ + delta * r.config.time_scale ],
       LAMBDA r1 :
  Then(racing_runners(r1, delta), LAMBDA updated :
  Then([ r1 EXCEPT !.runners = updated,
                   !.finish_order =
                     racing_finish_order(r1, updated, Len(updated)) ],
       LAMBDA r2 :
  IF AllFinished(r2) THEN [ r2 EXCEPT !.status = "Finished" ] ELSE r2)))

\* Race::update, Finished arm (cooldown)
update_finished(r, delta) ==
  [ r EXCEPT !.runners =
      [ i \in 1..Len(r.runners) |->
          Runner_update(r.runners[i], delta,
                        r.config.time_scale, r.config.distance) ] ]

\* Race::update
Race_update(r, delta) ==
  CASE r.status = "NotStarted" -> r
    [] r.status = "Countdown" -> update_countdown(r, delta)
    [] r.status = "Racing" -> update_racing(r, delta)
    [] r.status = "Finished" -> update_finished(r, delta)

\* Race::get_snapshot
Race_get_snapshot(r) ==
  [ status |-> r.status,
    elapsed_time |-> r.elapsed_time,
    countdown |-> r.countdown,
    runners |-> [ i \in 1..Len(r.runners) |-> RunnerSnapshot(r.runners[i]) ],
    finisher_count |-> Len(r.finish_order) ]

(***************************************************************************)
(* simulation.rs: the server.  Every operation runs under the server's     *)
(* lock (lib.rs), so each is one atomic action.  ret is the value returned   *)
(* by the last &mut self operation (unit for all but tick); the &self      *)
(* getters change nothing and their values are the operators SnapshotOf,   *)
(* ResultsOf and StatsOf.  last_tick is not kept: the delta of a tick is   *)
(* any value of Deltas.                                                    *)
(***************************************************************************)
VARIABLES state, race, running, tick_times, ret

vars == << state, race, running, tick_times, ret >>

(***************************************************************************)
(* lib.rs: the commands reach the server through one Mutex<GameServer>.    *)
(* mem is the GameServer inside the mutex, as a command that holds the     *)
(* guard is mutating it; lock is the caller that holds the guard (NoCaller *)
(* when it is free); call[c] is the command caller c is running and its    *)
(* position in it.  state, race, running and tick_times are the server as  *)
(* the last completed command left it, and ret what that command returned. *)
(* Where commands are atomic steps (Spec, LiveSpec) the two always agree.  *)
(***************************************************************************)
VARIABLES mem, lock, call

allvars == << state, race, running, tick_times, ret, mem, lock, call >>

\* the callers that invoke commands concurrently
Callers == { 1, 2 }
NoCaller == 0

\* the fields of GameServer
Server(st, r, isRunning, times) ==
  [ state |-> st, race |-> r, running |-> isRunning, tick_times |-> times ]

\* the frame of a caller that is in no command
IdleFrame == [ op |-> "none", at |-> "idle", i |-> 0, delta |-> 0, rv |-> NoRet ]

\* a command that runs as one step under the guard
Atomic ==
  /\ mem' = Server(state', race', running', tick_times')
  /\ UNCHANGED << lock, call >>

GameStates == { "Idle", "Loading", "Ready", "Racing", "Results" }

\* GameServer::new
Init ==
  /\ state = "Idle"
  /\ race = NoRace
  /\ running = FALSE
  /\ tick_times = << >>
  /\ ret = NoRet
  /\ mem = Server("Idle", NoRace, FALSE, << >>)
  /\ lock = NoCaller
  /\ call = [ c \in Callers |-> IdleFrame ]

\* self.race.as_ref().map(|r| r.get_snapshot())
SnapshotOf(r) == IF r = NoRace THEN None ELSE Some(Race_get_snapshot(r[1]))

\* the race GameServer::init_race builds
BuildRace(runner_count, time_scale, fr, jv, lr) ==
  setup_starting_positions(
    generate_runners(Race_new(RaceConfig(runner_count, time_scale)), fr, jv),
    lr)

\* GameServer::init_race (state passes through Loading inside the lock)
server_init_race(runner_count, time_scale, fr, jv, lr) ==
  /\ state' = "Ready"
  /\ ret' = NoRet
  /\ UNCHANGED << running, tick_times >>
  /\ race' = SomeRace(BuildRace(runner_count, time_scale, fr, jv, lr))

init_race ==
  \E runner_count \in 0..MaxRunners, time_scale \in TimeScales :
    \E fr \in [1..runner_count -> FinishRand],
       jv \in [1..runner_count -> JitterVectors],
       lr \in [1..runner_count -> LaneRand] :
      server_init_race(runner_count, time_scale, fr, jv, lr)

\* a start that also puts the runners back on the grid
StartedRace_Regrid(r) ==
  start_countdown(setup_starting_positions(r, [ i \in 1..Len(r.runners) |-> 0 ]))

\* the race after GameServer::start_race
StartedRace(r) == start_countdown(r)

\* GameServer::start_race
start_race ==
  /\ IF race # NoRace
     THEN /\ race' = SomeRace(StartedRace(race[1]))
          /\ state' = "Racing"
          /\ running' = TRUE
     ELSE UNCHANGED << race, state, running >>
  /\ ret' = NoRet
  /\ UNCHANGED tick_times

\* tick_times.push(t); if len > 60 { remove(0) }
RecordTickTime(times, t) ==
  LET pushed == Append(times, t)
  IN  IF Len(pushed) > TICK_WINDOW THEN Tail(pushed) ELSE pushed

\* a tick that never returns early
TickSkips_Never(isRunning) == FALSE

\* whether GameServer::tick returns at once
TickSkips(isRunning) == ~isRunning

\* a tick that stops the server at the finish but keeps its state
SyncState_KeepsState(r, st, isRunning) ==
  [ state |-> st, running |-> IF r.status = "Finished" THEN FALSE ELSE isRunning ]

\* the server state and running flag after the race update of a tick
SyncState(r, st, isRunning) ==
  IF r.status = "Finished"
  THEN [ state |-> "Results", running |-> FALSE ]
  ELSE [ state |-> st, running |-> isRunning ]

\* GameServer::tick
server_tick(delta, t) ==
  /\ IF TickSkips(running)
     THEN /\ ret' = SnapshotOf(race)
          /\ UNCHANGED << state, race, running, tick_times >>
     ELSE /\ IF race # NoRace
             THEN \E r \in { Race_update(race[1], delta) } :
                    /\ race' = SomeRace(r)
                    /\ state' = SyncState(r, state, running).state
                    /\ running' = SyncState(r, state, running).running
             ELSE UNCHANGED << race, state, running >>
          /\ tick_times' = RecordTickTime(tick_times, t)
          /\ ret' = SnapshotOf(race')

tick ==
  \E delta \in Deltas, t \in TickTimeSamples :
    /\ running => Len(tick_times) < MaxTicks
    /\ server_tick(delta, t)

\* GameServer::get_snapshot
get_snapshot == UNCHANGED vars

\* GameServer::get_results
ResultsOf(r) == IF r = NoRace THEN None ELSE Some(r[1].finish_order)

get_results == UNCHANGED vars

RECURSIVE SumSeq(_)
SumSeq(s) == IF s = << >> THEN 0 ELSE Head(s) + SumSeq(Tail(s))

\* GameServer::get_stats
StatsOf(st, r, times) ==
  [ tick_rate |-> TICK_RATE,
    avg_tick_time_ms |-> IF times = << >> THEN 0 ELSE SumSeq(times) \div Len(times),
    runner_count |-> IF r = NoRace THEN 0 ELSE Len(r[1].runners),
    game_state |-> st ]

get_stats == UNCHANGED vars

\* a reset that keeps the tick-duration window
reset_KeepsWindow ==
  /\ state' = "Idle"
  /\ race' = NoRace
  /\ running' = FALSE
  /\ ret' = NoRet
  /\ UNCHANGED tick_times

\* GameServer::reset
reset ==
  /\ state' = "Idle"
  /\ race' = NoRace
  /\ running' = FALSE
  /\ tick_times' = << >>
  /\ ret' = NoRet

\* GameServer::pause
pause ==
  /\ running' = FALSE
  /\ ret' = NoRet
  /\ UNCHANGED << state, race, tick_times >>

\* a resume that re-arms in every state
ResumeArms_Always(st) == TRUE

\* whether GameServer::resume re-arms the server
ResumeArms(st) == st = "Racing"

\* GameServer::resume
resume ==
  /\ running' = (IF ResumeArms(state) THEN TRUE ELSE running)
  /\ ret' = NoRet
  /\ UNCHANGED << state, race, tick_times >>

Next ==
  \/ init_race /\ Atomic
  \/ start_race /\ Atomic
  \/ tick /\ Atomic
  \/ get_snapshot /\ Atomic
  \/ get_results /\ Atomic
  \/ get_stats /\ Atomic
  \/ reset /\ Atomic
  \/ pause /\ Atomic
  \/ resume /\ Atomic

Spec == Init /\ [][Next]_vars

(***************************************************************************)
(* An uninterrupted run: one init_race with at least one runner and a      *)
(* positive time_scale, one start_race, then ticks with a positive delta,  *)
(* which the caller keeps issuing (weak fairness of the tick).             *)
(***************************************************************************)
live_init_race ==
  /\ state = "Idle"
  /\ \E runner_count \in 1..MaxRunners, time_scale \in LiveTimeScales :
       \E fr \in [1..runner_count -> FinishRand],
          jv \in [1..runner_count -> JitterVectors],
          lr \in [1..runner_count -> LaneRand] :
         server_init_race(runner_count, time_scale, fr, jv, lr)

live_start_race ==
  /\ state = "Ready"
  /\ start_race

live_tick ==
  \E delta \in LiveDeltas, t \in TickTimeSamples : server_tick(delta, t)

LiveNext ==
  \/ live_init_race /\ Atomic
  \/ live_start_race /\ Atomic
  \/ live_tick /\ Atomic

LiveSpec == Init /\ [][LiveNext]_vars /\ WF_vars(live_tick)

(***************************************************************************)
(* One runner of any decile (PaceSpec): the race holds a single runner     *)
(* whose finish time is the draw of any index of generate_finish_times and *)
(* whose pacing curve is jittered by any combination of extreme draws; the *)
(* race is started once and ticked to its end.                             *)
(***************************************************************************)
\* the indices i % 10 that generate_finish_times tells apart
Deciles == 0..9
\* samples of rand::random() for the finish time (PaceSpec)
PaceRand == {0, 50, 99}
\* samples of rand::random() for one jitter factor (PaceSpec)
PaceJitter == {0, 99}
\* wall-clock seconds between two ticks (PaceSpec)
PaceDeltas == {150, 1000}

\* a race of the single runner built by RunnerState::new(0, finish_time)
PaceRace(finish_time, jv, lr) ==
  setup_starting_positions(
    [ Race_new(RaceConfig(1, 1)) EXCEPT
        !.runners = << RunnerState_new(0, finish_time, jv) >> ],
    << lr >>)

pace_build(finish_time, jv, lr) ==
  /\ state' = "Ready"
  /\ ret' = NoRet
  /\ UNCHANGED << running, tick_times >>
  /\ race' = SomeRace(PaceRace(finish_time, jv, lr))

pace_init_race ==
  /\ state = "Idle"
  /\ \E i \in Deciles, r \in PaceRand, lr \in LaneRand :
       \E jv \in [1..4 -> PaceJitter] :
         pace_build(FinishTimeDraw(i, r), jv, lr)

pace_start_race ==
  /\ state = "Ready"
  /\ start_race

pace_tick ==
  \E delta \in PaceDeltas, t \in TickTimeSamples :
    /\ running
    /\ server_tick(delta, t)

PaceNext ==
  \/ pace_init_race /\ Atomic
  \/ pace_start_race /\ Atomic
  \/ pace_tick /\ Atomic

PaceSpec == Init /\ [][PaceNext]_vars

(***************************************************************************)
(* Concurrent callers (LockSpec).  A command locks the mutex, runs the     *)
(* statements of its GameServer method one step at a time on mem, and      *)
(* drops the guard when it returns; the inner loop of Race::update is one  *)
(* step per runner update and one per finish_order push.                   *)
(***************************************************************************)
\* wall-clock seconds between two ticks (LockSpec)
LockDeltas == {1000}
\* time_scale values passed to init_race (LockSpec)
LockTimeScales == {1}

Commands ==
  { "init_race", "start_race", "tick", "get_snapshot", "get_results",
    "get_stats", "reset", "pause", "resume" }

\* a mutex that lets every caller in
CanLock_Always(holder) == TRUE

\* server.lock(): the caller gets the guard when no caller holds it
CanLock(holder) == holder = NoCaller

At(c, op, at) == call[c].op = op /\ call[c].at = at
Goto(c, at) == call' = [ call EXCEPT ![c].at = at ]
Return(c, rv) == call' = [ call EXCEPT ![c].at = "return", ![c].rv = rv ]
MemRace == mem.race[1]
SetRace(r) == mem' = [ mem EXCEPT !.race = SomeRace(r) ]

\* a command is invoked: let mut server = server.lock()
lock_call(c) ==
  /\ call[c].at = "idle"
  /\ CanLock(lock)
  /\ \E op \in Commands :
       /\ (op = "tick" /\ mem.running) => Len(mem.tick_times) < MaxTicks
       /\ call' = [ call EXCEPT ![c] = [ IdleFrame EXCEPT !.op = op, !.at = "enter" ] ]
  /\ lock' = c
  /\ UNCHANGED << vars, mem >>

\* GameServer::init_race: self.state = Loading
init_loading(c) ==
  /\ At(c, "init_race", "enter")
  /\ mem' = [ mem EXCEPT !.state = "Loading" ]
  /\ Goto(c, "build")
  /\ UNCHANGED << vars, lock >>

\* GameServer::init_race: the race is built and self.race = Some(race)
init_build(c) ==
  /\ At(c, "init_race", "build")
  /\ \E runner_count \in 1..MaxRunners, time_scale \in LockTimeScales :
       \E fr \in [1..runner_count -> FinishRand],
          jv \in [1..runner_count -> JitterVectors],
          lr \in [1..runner_count -> LaneRand] :
         SetRace(BuildRace(runner_count, time_scale, fr, jv, lr))
  /\ Goto(c, "ready")
  /\ UNCHANGED << vars, lock >>

\* GameServer::init_race: self.state = Ready
init_ready(c) ==
  /\ At(c, "init_race", "ready")
  /\ mem' = [ mem EXCEPT !.state = "Ready" ]
  /\ Return(c, NoRet)
  /\ UNCHANGED << vars, lock >>

\* GameServer::start_race: if let Some(race) { race.start_countdown()
start_arm(c) ==
  /\ At(c, "start_race", "enter")
  /\ IF mem.race # NoRace
     THEN SetRace(StartedRace(MemRace)) /\ Goto(c, "state")
     ELSE UNCHANGED mem /\ Return(c, NoRet)
  /\ UNCHANGED << vars, lock >>

\* GameServer::start_race: self.state = Racing
start_state(c) ==
  /\ At(c, "start_race", "state")
  /\ mem' = [ mem EXCEPT !.state = "Racing" ]
  /\ Goto(c, "running")
  /\ UNCHANGED << vars, lock >>

\* GameServer::start_race: self.running = true
start_running(c) ==
  /\ At(c, "start_race", "running")
  /\ mem' = [ mem EXCEPT !.running = TRUE ]
  /\ Return(c, NoRet)
  /\ UNCHANGED << vars, lock >>

\* GameServer::tick: the early return, or the delta since the last tick
tick_enter(c) ==
  /\ At(c, "tick", "enter")
  /\ IF TickSkips(mem.running)
     THEN Return(c, SnapshotOf(mem.race))
     ELSE \E delta \in LockDeltas :
            call' = [ call EXCEPT ![c].at = "update", ![c].delta = delta ]
  /\ UNCHANGED << vars, mem, lock >>

\* Race::update up to the runner loop of the Racing arm
tick_update(c) ==
  /\ At(c, "tick", "update")
  /\ IF mem.race = NoRace
     THEN UNCHANGED mem /\ Goto(c, "record")
     ELSE CASE MemRace.status = "Racing" ->
                 /\ SetRace([ MemRace EXCEPT !.elapsed_time =
                                @ + call[c].delta * MemRace.config.time_scale ])
                 /\ call' = [ call EXCEPT ![c].at = "runner", ![c].i = 1 ]
            [] MemRace.status = "Countdown" ->
                 /\ SetRace(update_countdown(MemRace, call[c].delta))
                 /\ Goto(c, "sync")
            [] MemRace.status = "Finished" ->
                 /\ SetRace(update_finished(MemRace, call[c].delta))
                 /\ Goto(c, "sync")
            [] MemRace.status = "NotStarted" ->
                 /\ UNCHANGED mem
                 /\ Goto(c, "sync")
  /\ UNCHANGED << vars, lock >>

\* Race::update, Racing arm: Runner::update of the next unfinished runner,
\* or the end of the loop and the test that ends the race
tick_runner(c) ==
  /\ At(c, "tick", "runner")
  /\ IF call[c].i > Len(MemRace.runners)
     THEN /\ IF AllFinished(MemRace)
             THEN SetRace([ MemRace EXCEPT !.status = "Finished" ])
             ELSE UNCHANGED mem
          /\ Goto(c, "sync")
     ELSE IF MemRace.runners[call[c].i].finished
     THEN /\ UNCHANGED mem
          /\ call' = [ call EXCEPT ![c].i = @ + 1 ]
     ELSE /\ SetRace([ MemRace EXCEPT !.runners[call[c].i] =
                         Runner_update(@, call[c].delta,
                                       MemRace.config.time_scale,
                                       MemRace.config.distance) ])
          /\ Goto(c, "push")
  /\ UNCHANGED << vars, lock >>

\* Race::update, Racing arm: the finish check of the runner just updated
tick_push(c) ==
  /\ At(c, "tick", "push")
  /\ LET runner == MemRace.runners[call[c].i]
     IN  IF runner.finished /\ ~HasResult(MemRace.finish_order, runner.id)
         THEN SetRace([ MemRace EXCEPT !.finish_order =
                          PushResult(@, NewResult(@, runner.id,
                                                  MemRace.elapsed_time)) ])
         ELSE UNCHANGED mem
  /\ call' = [ call EXCEPT ![c].at = "runner", ![c].i = @ + 1 ]
  /\ UNCHANGED << vars, lock >>

\* GameServer::tick: match race.status { Finished => state, running }
tick_sync(c) ==
  /\ At(c, "tick", "sync")
  /\ LET synced == SyncState(MemRace, mem.state, mem.running)
     IN  mem' = [ mem EXCEPT !.state = synced.state,
                             !.running = synced.running ]
  /\ Goto(c, "record")
  /\ UNCHANGED << vars, lock >>

\* GameServer::tick: the tick time is recorded and the snapshot returned
tick_record(c) ==
  /\ At(c, "tick", "record")
  /\ \E t \in TickTimeSamples :
       mem' = [ mem EXCEPT !.tick_times = RecordTickTime(@, t) ]
  /\ Return(c, SnapshotOf(mem.race))
  /\ UNCHANGED << vars, lock >>

\* the getters: each reads mem once
read_snapshot(c) ==
  /\ At(c, "get_snapshot", "enter")
  /\ Return(c, SnapshotOf(mem.race))
  /\ UNCHANGED << vars, mem, lock >>

read_results(c) ==
  /\ At(c, "get_results", "enter")
  /\ Return(c, ResultsOf(mem.race))
  /\ UNCHANGED << vars, mem, lock >>

read_stats(c) ==
  /\ At(c, "get_stats", "enter")
  /\ Return(c, StatsOf(mem.state, mem.race, mem.tick_times))
  /\ UNCHANGED << vars, mem, lock >>

\* GameServer::reset, one assignment at a time
reset_state(c) ==
  /\ At(c, "reset", "enter")
  /\ mem' = [ mem EXCEPT !.state = "Idle" ]
  /\ Goto(c, "race")
  /\ UNCHANGED << vars, lock >>

reset_race(c) ==
  /\ At(c, "reset", "race")
  /\ mem' = [ mem EXCEPT !.race = NoRace ]
  /\ Goto(c, "running")
  /\ UNCHANGED << vars, lock >>

reset_running(c) ==
  /\ At(c, "reset", "running")
  /\ mem' = [ mem EXCEPT !.running = FALSE ]
  /\ Goto(c, "times")
  /\ UNCHANGED << vars, lock >>

reset_times(c) ==
  /\ At(c, "reset", "times")
  /\ mem' = [ mem EXCEPT !.tick_times = << >> ]
  /\ Return(c, NoRet)
  /\ UNCHANGED << vars, lock >>

\* GameServer::pause
pause_body(c) ==
  /\ At(c, "pause", "enter")
  /\ mem' = [ mem EXCEPT !.running = FALSE ]
  /\ Return(c, NoRet)
  /\ UNCHANGED << vars, lock >>

\* GameServer::resume
resume_body(c) ==
  /\ At(c, "resume", "enter")
  /\ mem' = [ mem EXCEPT !.running = IF ResumeArms(mem.state) THEN TRUE ELSE @ ]
  /\ Return(c, NoRet)
  /\ UNCHANGED << vars, lock >>

\* the command returns and the guard is dropped: the server is as the
\* command left it; the &self getters return without touching the server
unlock(c) ==
  /\ call[c].at = "return"
  /\ lock' = (IF lock = c THEN NoCaller ELSE lock)
  /\ call' = [ call EXCEPT ![c] = IdleFrame ]
  /\ IF call[c].op \in { "get_snapshot", "get_results", "get_stats" }
     THEN UNCHANGED vars
     ELSE /\ state' = mem.state
          /\ race' = mem.race
          /\ running' = mem.running
          /\ tick_times' = mem.tick_times
          /\ ret' = call[c].rv
  /\ UNCHANGED mem

LockNext ==
  \E c \in Callers :
    \/ lock_call(c)
    \/ init_loading(c)
    \/ init_build(c)
    \/ init_ready(c)
    \/ start_arm(c)
    \/ start_state(c)
    \/ start_running(c)
    \/ tick_enter(c)
    \/ tick_update(c)
    \/ tick_runner(c)
    \/ tick_push(c)
    \/ tick_sync(c)
    \/ tick_record(c)
    \/ read_snapshot(c)
    \/ read_results(c)
    \/ read_stats(c)
    \/ reset_state(c)
    \/ reset_race(c)
    \/ reset_running(c)
    \/ reset_times(c)
    \/ pause_body(c)
    \/ resume_body(c)
    \/ unlock(c)

LockSpec == Init /\ [][LockNext]_allvars

(***************************************************************************)
(* Properties.                                                             *)
(***************************************************************************)
HasRace == race # NoRace
Status == IF HasRace THEN race[1].status ELSE "none"
FinishOrder == IF HasRace THEN race[1].finish_order ELSE << >>
Roster == IF HasRace THEN race[1].runners ELSE << >>

\* a race of at least one runner with a positive time scale
WellFormedRace ==
  /\ HasRace
  /\ race[1].config.runner_count >= 1
  /\ race[1].config.time_scale > 0

\* a step of an operation that keeps the race it is given
SameRaceStep == start_race \/ tick \/ pause \/ resume

\* C1: finish_order holds at most one entry per runner_id, is never longer
\* than the roster, and its k-th entry (1-based) has position k.
C1_FinishOrderShape ==
  /\ \A j, k \in 1..Len(FinishOrder) :
       FinishOrder[j].runner_id = FinishOrder[k].runner_id => j = k
  /\ Len(FinishOrder) <= Len(Roster)
  /\ \A k \in 1..Len(FinishOrder) : FinishOrder[k].position = k

\* a race of two runners, both recorded
C1_Witness ==
  /\ Len(Roster) = 2
  /\ Len(FinishOrder) = 2
  /\ FinishOrder[2].position = 2

\* C2 as stated: consecutive entries of finish_order have strictly
\* increasing finish_time (here for well-formed races alone).
C2_StrictlyIncreasing ==
  WellFormedRace =>
  \A k \in 1..(Len(FinishOrder) - 1) :
    FinishOrder[k].finish_time < FinishOrder[k + 1].finish_time

\* C2 amended: consecutive entries of finish_order have non-decreasing
\* finish_time (runners flagged in the same tick share one finish_time).
C2_NonDecreasing ==
  \A k \in 1..(Len(FinishOrder) - 1) :
    FinishOrder[k].finish_time <= FinishOrder[k + 1].finish_time

\* two runners recorded in the same tick of a race whose clock advances
C2_Witness ==
  /\ Len(FinishOrder) = 2
  /\ FinishOrder[1].finish_time = FinishOrder[2].finish_time
  /\ FinishOrder[1].finish_time > 0

\* two runners recorded in different ticks
C2_WitnessApart ==
  /\ Len(FinishOrder) = 2
  /\ FinishOrder[1].finish_time < FinishOrder[2].finish_time

\* C3 as stated: once the status is Finished, no tick, start_race, pause or
\* resume on that race changes it (here for well-formed races alone).
C3_FinishedAbsorbing ==
  [][(WellFormedRace /\ Status = "Finished" /\ SameRaceStep)
       => Status' = "Finished"]_vars

\* C4 as stated: within one race the status only moves forward along
\* NotStarted -> Countdown -> Racing -> Finished; Countdown -> Racing
\* happens only in a tick that brings countdown to <= 0, and
\* Racing -> Finished only in a tick that ends with a full finish_order
\* (here for well-formed races alone).
C4_ForwardOnly ==
  [][(WellFormedRace /\ SameRaceStep) =>
       \/ Status' = Status
       \/ Status = "NotStarted" /\ Status' = "Countdown"
       \/ /\ Status = "Countdown" /\ Status' = "Racing"
          /\ tick
          /\ race'[1].countdown = 0
       \/ /\ Status = "Racing" /\ Status' = "Finished"
          /\ tick
          /\ Len(race'[1].finish_order) = Len(race'[1].runners)]_vars

\* C5: a tick, start_race, pause or resume never turns a runner's finished
\* flag from true to false.
C5_FinishedSticks ==
  [][SameRaceStep =>
       \A i \in 1..Len(Roster) :
         Roster[i].finished =>
           /\ race' # NoRace
           /\ Len(race'[1].runners) = Len(Roster)
           /\ race'[1].runners[i].finished]_vars

\* a finished runner in a race that start_race has armed again
C5_Witness ==
  /\ Status = "Countdown"
  /\ \E i \in 1..Len(Roster) : Roster[i].finished

\* every roster runner_id occurs exactly once in finish_order
EveryRunnerRecorded ==
  /\ Len(FinishOrder) = race[1].config.runner_count
  /\ \A i \in 1..Len(Roster) :
       Cardinality({ k \in 1..Len(FinishOrder) :
                       FinishOrder[k].runner_id = Roster[i].id }) = 1

C7_IdleTickFrame ==
  [][(tick /\ ~running) =>
       /\ UNCHANGED << race, state, running, tick_times >>
       /\ ret' = SnapshotOf(race)
       /\ ~HasRace => ret' = None
       /\ Status = "NotStarted" => ret'.value.elapsed_time = 0]_vars

\* a tick answered from a race that was never started
C7_Witness ==
  /\ ~running
  /\ Status = "NotStarted"
  /\ ret = SnapshotOf(race)
  /\ ret.value.elapsed_time = 0

\* C8: pause clears running; while running is false a tick leaves the race
\* unchanged and only resume or start_race sets running; resume sets
\* running when the server state is Racing and changes nothing otherwise.
C8_PauseResume ==
  [][/\ pause => ~running'
     /\ (~running /\ tick) => race' = race
     /\ (~running /\ running') => (resume \/ start_race)
     /\ resume =>
          IF state = "Racing"
          THEN running' /\ UNCHANGED << state, race, tick_times >>
          ELSE UNCHANGED << state, race, running, tick_times >>]_vars

\* a tick answered while a race under way is paused
C8_Witness ==
  /\ ~running
  /\ state = "Racing"
  /\ Status = "Racing"
  /\ race[1].elapsed_time > 0
  /\ ret = SnapshotOf(race)

\* C9: the race status is Finished exactly when the server state is
\* Results, and then running is false.
C9_FinishSync ==
  /\ (Status = "Finished") <=> (state = "Results")
  /\ state = "Results" => ~running

\* a finished race of at least one runner
C9_Witness ==
  /\ Status = "Finished"
  /\ state = "Results"
  /\ ~running
  /\ Len(FinishOrder) >= 1

\* C10: reset leaves no race, and whenever there is no race the server is
\* Idle, not running, with an empty tick-duration window; get_snapshot,
\* get_results and tick return none and get_stats reports 0 runners.
C10_ResetToIdle ==
  [][/\ reset => race' = NoRace
     /\ race' = NoRace =>
          /\ state' = "Idle"
          /\ ~running'
          /\ tick_times' = << >>
          /\ SnapshotOf(race') = None
          /\ ResultsOf(race') = None
          /\ StatsOf(state', race', tick_times').runner_count = 0
          /\ tick => ret' = None]_vars

\* a tick answered none by a server without a race
C10_Witness ==
  /\ ~HasRace
  /\ state = "Idle"
  /\ ret = None

\* the race as init_race leaves it; Race::new keeps the runner_count it was
\* given in config
FreshRace(r) ==
  /\ r.status = "NotStarted"
  /\ r.elapsed_time = 0
  /\ r.finish_order = << >>
  /\ Len(r.runners) = r.config.runner_count
  /\ \A i \in 1..Len(r.runners) :
       /\ r.runners[i].id = i - 1
       /\ ~r.runners[i].finished
       /\ r.runners[i].current_speed = 0

\* C11: init_race from any state leaves server state Ready, and as long as
\* the server state is Ready (until start_race or reset) the race is a fresh
\* one: NotStarted, elapsed_time 0, empty finish_order, runner_count runners
\* with ids 0..runner_count-1 in roster order, unfinished, speed 0; a tick
\* on a race that is NotStarted leaves that race as it is.
C11_InitRaceFresh ==
  [][/\ state' = "Ready" \/ ~init_race
     /\ state' = "Ready" => (race' # NoRace /\ FreshRace(race'[1]))
     /\ (Status = "NotStarted" /\ tick) => race' = race]_vars

\* a tick processed (running is true) on a race that init_race put in place
\* of a started one: the new race of two runners is still fresh
C11_Witness ==
  /\ running
  /\ state = "Ready"
  /\ HasRace
  /\ FreshRace(race[1])
  /\ Len(Roster) = 2
  /\ Len(tick_times) >= 2
  /\ ret = SnapshotOf(race)

\* C12: start_race without a race changes nothing (the server stays Idle,
\* not running, without a race); with a race it sets the race status to
\* Countdown with countdown 3, the server state to Racing and running to
\* true.
C12_StartRace ==
  [][start_race =>
       IF ~HasRace
       THEN /\ UNCHANGED << state, race, running, tick_times >>
            /\ state' = "Idle"
            /\ ~running'
            /\ race' = NoRace
       ELSE /\ race' # NoRace
            /\ race'[1].status = "Countdown"
            /\ race'[1].countdown = CountdownStart
            /\ state' = "Racing"
            /\ running']_vars

\* start_race has just armed again a race whose clock has advanced
C12_Witness ==
  /\ ret = NoRet
  /\ state = "Racing"
  /\ running
  /\ Status = "Countdown"
  /\ race[1].countdown = CountdownStart
  /\ race[1].elapsed_time > 0

\* a step of one command run alone that changes the server or its result
SerialStep == start_race \/ tick \/ pause \/ resume \/ reset \/ init_race

\* the callers that are inside a command
Inside == { c \in Callers : call[c].at # "idle" }

\* what a getter returns when it runs between two commands
GetterValue(op, st, r, times) ==
  CASE op = "get_snapshot" -> SnapshotOf(r)
    [] op = "get_results" -> ResultsOf(r)
    [] op = "get_stats" -> StatsOf(st, r, times)

\* C13: with concurrent callers at most one caller is inside a command at a
\* time; a getter returns what it would return between two commands, never a
\* value read in the middle of another command; and every completed command
\* changes the server and its result as one step of the serial server does.
C13_Serializable ==
  [][/\ Cardinality(Inside') <= 1
     /\ \A c \in Callers :
          (call'[c].at = "return"
             /\ call'[c].op \in { "get_snapshot", "get_results", "get_stats" })
            => call'[c].rv = GetterValue(call'[c].op, state', race', tick_times')
     /\ vars' # vars => SerialStep]_allvars

\* a tick that holds the guard is between flagging a runner finished and
\* pushing its result (the runner is not yet counted in finish_order), and
\* the other caller is outside
C13_Witness ==
  \E c \in Callers :
    /\ lock = c
    /\ At(c, "tick", "push")
    /\ Inside = { c }
    /\ mem.race[1].runners[call[c].i].finished
    /\ ~HasResult(mem.race[1].finish_order, mem.race[1].runners[call[c].i].id)
    /\ mem.race # race

\* C14 as stated: in a race with time_scale <= 0 (and at least one runner)
\* a tick changes no runner's distance and leaves elapsed_time at 0.
C14_NoMotion ==
  [][(/\ HasRace
      /\ race[1].config.time_scale <= 0
      /\ race[1].config.runner_count >= 1
      /\ tick)
       => /\ race' # NoRace
          /\ race'[1].elapsed_time = 0
          /\ \A i \in 1..Len(Roster) :
               race'[1].runners[i].distance = Roster[i].distance]_vars

\* the speed rule of one Runner::update: from speed old to speed new, with
\* the target speed of that update
SpeedStep(old, new, target, delta) ==
  /\ Abs(new - old) <= ACCELERATION_RATE * delta
  /\ Min(old, target) <= new
  /\ new <= Max(old, target)
  /\ old = target => new = old

\* C15: in a tick of a race under way (delta >= 0), every runner that
\* Runner::update is applied to changes its speed by at most
\* ACCELERATION_RATE * delta, to a speed between its old speed and the target
\* speed computed in that tick, and keeps a speed that equals the target.
C15_SpeedTowardTarget ==
  [][(HasRace /\ running /\ Status = "Racing") =>
       \A delta \in Deltas, t \in TickTimeSamples :
         server_tick(delta, t) =>
           \A i \in 1..Len(Roster) :
             ~Roster[i].finished =>
               SpeedStep(Roster[i].current_speed,
                         race'[1].runners[i].current_speed,
                         race'[1].runners[i].target_speed,
                         delta)]_vars

\* a runner under way that was held at its target speed by the clamp, and
\* in the same race a runner that has been slowed down to its cooldown speed
C15_Witness ==
  /\ Status = "Racing"
  /\ Len(Roster) = 2
  /\ \E i \in 1..Len(Roster) :
       /\ ~Roster[i].finished
       /\ Roster[i].distance > 0
       /\ Roster[i].current_speed = Roster[i].target_speed
       /\ Roster[i].current_speed > 0
  /\ \E i \in 1..Len(Roster) :
       /\ Roster[i].finished
       /\ Roster[i].current_speed = Roster[i].target_speed
       /\ Roster[i].current_speed > 0

\* splits strictly increasing, and a target speed that is positive and
\* finite in each of the five segments
IncreasingSplits(st) ==
  /\ \A k \in 1..4 : st.splits[k] < st.splits[k + 1]
  /\ \A segment \in 0..LastSegment :
       /\ get_target_speed(st, segment * KmDistance, 1) > 0
       /\ get_target_speed(st, segment * KmDistance, 1) < Infinity

\* C16: for a finish time F of any decile (780..2100 s) and any jitter
\* draws, from_finish_time(F) gives strictly increasing splits with
\* splits[4] = F and final_time = F (in centiseconds), and every segment's
\* time budget that get_target_speed divides by is strictly positive; the
\* curve of a runner stays so through the race.
C16_PacingCurve ==
  [][/\ \A i \in Deciles, r \in PaceRand, lr \in LaneRand :
          \A jv \in [1..4 -> PaceJitter] :
            pace_build(FinishTimeDraw(i, r), jv, lr) =>
              /\ FinishTimeDraw(i, r) \in 780..2100
              /\ race'[1].runners[1].split_times.splits[5]
                   = 100 * FinishTimeDraw(i, r)
              /\ race'[1].runners[1].split_times.final_time
                   = 100 * FinishTimeDraw(i, r)
              /\ IncreasingSplits(race'[1].runners[1].split_times)
     /\ race' # NoRace =>
          \A i \in 1..Len(race'[1].runners) :
            IncreasingSplits(race'[1].runners[i].split_times)]_vars

\* the slowest runner of the last decile, with the jitter that brings the
\* fourth split closest to the finish time, has run into the last segment
C16_Witness ==
  /\ HasRace
  /\ Len(Roster) = 1
  /\ Roster[1].split_times.final_time = 100 * FinishTimeDraw(9, 99)
  /\ Roster[1].split_times
       = from_finish_time(FinishTimeDraw(9, 99), << 0, 0, 0, 99 >>)
  /\ Roster[1].distance >= LastSegment * KmDistance
  /\ Roster[1].target_speed > 0

\* the roster indices of the runners whose finished flag a step sets
NewlyFinished ==
  { i \in 1..Len(Roster) : ~Roster[i].finished /\ race'[1].runners[i].finished }

\* C17: a processed tick of a race under way appends exactly one record for
\* each runner whose finished flag it sets and no other record; the record
\* carries the elapsed_time the race has after the tick and the position
\* "records before it + 1"; runners flagged in the same tick are appended in
\* roster order and share the finish_time.
C17_FinishRecords ==
  [][(HasRace /\ running /\ Status = "Racing" /\ tick) =>
       LET before == FinishOrder
           after == race'[1].finish_order
           added == (Len(before) + 1)..Len(after)
       IN  /\ Len(after) = Len(before) + Cardinality(NewlyFinished)
           /\ SubSeq(after, 1, Len(before)) = before
           /\ \A i \in NewlyFinished :
                Cardinality({ k \in added :
                                after[k].runner_id = Roster[i].id }) = 1
           /\ \A k \in added :
                /\ after[k].finish_time = race'[1].elapsed_time
                /\ after[k].position = k
                /\ \E i \in NewlyFinished : after[k].runner_id = Roster[i].id
           /\ \A i, j \in NewlyFinished :
                \A k, l \in added :
                  (/\ i < j
                   /\ after[k].runner_id = Roster[i].id
                   /\ after[l].runner_id = Roster[j].id) => k < l]_vars

\* the tick that has just ended the race flagged both runners: they are
\* recorded in roster order with the elapsed_time the race now has
C17_Witness ==
  /\ Status = "Finished"
  /\ Len(Roster) = 2
  /\ Len(FinishOrder) = 2
  /\ FinishOrder[1].runner_id = Roster[1].id
  /\ FinishOrder[2].runner_id = Roster[2].id
  /\ FinishOrder[1].finish_time = race[1].elapsed_time
  /\ FinishOrder[2].finish_time = race[1].elapsed_time
  /\ race[1].elapsed_time > 0

\* C18: a processed tick of a race in Countdown subtracts the delta from
\* countdown and changes nothing else of the race (elapsed_time, every
\* runner and finish_order stay); when the result is <= 0 the status becomes
\* Racing and countdown exactly 0, in that tick too without moving a runner
\* or the clock; countdown is never negative between operations.
C18_CountdownFrame ==
  [][/\ (HasRace /\ running /\ Status = "Countdown") =>
          \A delta \in Deltas, t \in TickTimeSamples :
            server_tick(delta, t) =>
              /\ race' # NoRace
              /\ IF race[1].countdown - delta <= 0
                 THEN /\ race'[1].status = "Racing"
                      /\ race'[1].countdown = 0
                 ELSE /\ race'[1].status = "Countdown"
                      /\ race'[1].countdown = race[1].countdown - delta
              /\ race'[1].elapsed_time = race[1].elapsed_time
              /\ race'[1].runners = race[1].runners
              /\ race'[1].finish_order = race[1].finish_order
              /\ race'[1].config = race[1].config
     /\ race' # NoRace => race'[1].countdown >= 0]_vars

\* a first countdown that took two ticks has just ended: the race is Racing
\* with countdown 0, the clock at 0 and every runner still on the grid
C18_Witness ==
  /\ running
  /\ Status = "Racing"
  /\ race[1].countdown = 0
  /\ race[1].elapsed_time = 0
  /\ Len(tick_times) = 2
  /\ Len(Roster) = 2
  /\ ret = SnapshotOf(race)
  /\ \A i \in 1..Len(Roster) :
       /\ Roster[i].distance = 0
       /\ Roster[i].current_speed = 0
       /\ ~Roster[i].finished

\* C19 as stated: a tick issued after the race has finished (server state
\* Results), with time having passed since the last tick, is the cooldown
\* update: Race::update's Finished arm applied to the race (here for
\* well-formed races alone).
C19_CooldownReached ==
  [][(WellFormedRace /\ state = "Results" /\ Status = "Finished" /\ tick) =>
       \E delta \in Deltas :
         /\ delta > 0
         /\ race' = SomeRace(update_finished(race[1], delta))]_vars

\* C20: a race built with runner_count = 0 has an empty roster and an empty
\* finish_order throughout; start_race arms its countdown as for any race,
\* a processed Countdown tick counts down or starts the race, and the first
\* processed tick in status Racing ends it: status Finished, server state
\* Results, running false, and the snapshot returned has finisher_count 0.
C20_EmptyRace ==
  [][(race' # NoRace /\ race'[1].config.runner_count = 0) =>
       /\ race'[1].runners = << >>
       /\ race'[1].finish_order = << >>
       /\ (HasRace /\ start_race) =>
            /\ race'[1].status = "Countdown"
            /\ race'[1].countdown = CountdownStart
            /\ running'
       /\ (HasRace /\ running /\ Status = "Countdown" /\ tick) =>
            race'[1].status \in { "Countdown", "Racing" }
       /\ (HasRace /\ running /\ Status = "Racing" /\ tick) =>
            /\ race'[1].status = "Finished"
            /\ state' = "Results"
            /\ ~running'
            /\ ret' = SnapshotOf(race')
            /\ ret'.value.finisher_count = 0
            /\ ret'.value.runners = << >>]_vars

\* a race without runners has been counted down and ended by its one tick
\* in status Racing
C20_Witness ==
  /\ HasRace
  /\ race[1].config.runner_count = 0
  /\ Roster = << >>
  /\ Status = "Finished"
  /\ state = "Results"
  /\ ~running
  /\ FinishOrder = << >>
  /\ race[1].countdown = 0
  /\ Len(tick_times) = 2
  /\ ret = SnapshotOf(race)
  /\ ret.value.finisher_count = 0

\* no race, or a race of at least one runner with a positive time scale
NoneOrWellFormed(r) ==
  r # NoRace => (r[1].config.runner_count >= 1 /\ r[1].config.time_scale > 0)

\* C21 as stated: after every operation, running implies that the server
\* state is Racing and that a race exists whose status is Countdown or
\* Racing; init_race and reset leave running false (here for steps between
\* states with no race or a well-formed one).
C21_RunningConsistent ==
  [][(NoneOrWellFormed(race) /\ NoneOrWellFormed(race'))
       => /\ running' =>
               /\ state' = "Racing"
               /\ race' # NoRace
               /\ race'[1].status \in { "Countdown", "Racing" }
          /\ ~running' \/ ~(reset \/ init_race)]_vars

\* the runner_ids recorded in finish_order, and those flagged finished
RecordedIds(r) == { r.finish_order[k].runner_id : k \in 1..Len(r.finish_order) }
FlaggedIds(r) == { r.runners[i].id : i \in { j \in 1..Len(r.runners) : r.runners[j].finished } }

\* C22: after every operation the runner_ids in finish_order are exactly the
\* ids of the runners flagged finished, and the snapshot's finisher_count is
\* the number of its runner entries with finished = true; a runner's flag is
\* set only by a processed tick of a race under way at whose start the
\* runner's distance was already >= the race distance.
C22_SnapshotConsistent ==
  [][/\ race' # NoRace =>
          /\ RecordedIds(race'[1]) = FlaggedIds(race'[1])
          /\ LET snapshot == Race_get_snapshot(race'[1])
             IN  snapshot.finisher_count =
                   Cardinality({ i \in 1..Len(snapshot.runners) :
                                   snapshot.runners[i].finished })
     /\ (HasRace /\ SameRaceStep) =>
          \A i \in NewlyFinished :
            /\ running
            /\ Status = "Racing"
            /\ tick
            /\ Roster[i].distance >= race[1].config.distance]_vars

\* a race under way in which one of two runners has been flagged and
\* recorded, a tick after it crossed the line, and the other is still running
C22_Witness ==
  /\ Status = "Racing"
  /\ Len(Roster) = 2
  /\ Roster[1].finished
  /\ ~Roster[2].finished
  /\ Roster[2].distance > 0
  /\ RecordedIds(race[1]) = { Roster[1].id }
  /\ ret = SnapshotOf(race)
  /\ ret.value.finisher_count = 1

====
